---- MODULE Spec2Model ----
(***************************************************************************)
(* Model of the goldi dependency injection core: the function type factory *)
(* (NewType / Generate and its argument handling), the baseline validation *)
(* constraint over a type registry, and container retrieval.               *)
(*                                                                         *)
(* Go strings are modelled as sequences of one-character strings so that   *)
(* prefixes ("@", "%") and concatenation are computed, not assumed.        *)
(***************************************************************************)
EXTENDS Integers, Sequences, FiniteSets, TLC

\* ------------------------------------------------------------------ bounds
MaxArgs == 3
MaxIn == 3
MaxGenerate == 2

\* ------------------------------------------------------------ plain helpers
SeqsUpTo(S, n) == UNION {[1..k -> S] : k \in 0..n}

Range(s) == {s[i] : i \in DOMAIN s}

\* ------------------------------------------------------------ reflect types
\* A reflect.Type of a parameter or return value: its kind and, for a slice,
\* the kind of its elements.
Type(kind) == [kind |-> kind, elem |-> "none"]

SliceOf(kind) == [kind |-> "slice", elem |-> kind]

Elem(t) == Type(t.elem)

ParamKinds == {"string", "ptr"}

\* A value as seen through reflect.ValueOf: kind, text (for strings and
\* numbers the characters, for an instance its state) and slice elements.
Value(kind, val) == [kind |-> kind, val |-> val, elems |-> <<>>]

SliceValue(elems) == [kind |-> "slice", val |-> <<>>, elems |-> elems]

NilValue == Value("invalid", <<>>)

\* ------------------------------------------------------------------ errors
NoErr == [type |-> "nil", n1 |-> 0, n2 |-> 0, k1 |-> "", k2 |-> "", id |-> <<>>]

Err(type, n1, n2, k1, k2, id) ==
    [type |-> type, n1 |-> n1, n2 |-> n2, k1 |-> k1, k2 |-> k2, id |-> id]

\* ------------------------------------------------- callables under NewType
\* The factoryFunction handed to NewType, described by what reflect reports
\* of it: Kind, the In types, the Out types and IsVariadic.
Callable(kind, in, out, variadic) ==
    [kind |-> kind, in |-> in, out |-> out, variadic |-> variadic]

NilCallable == Callable("nil", <<>>, <<>>, FALSE)

NumIn(t) == Len(t.in)

NumOut(t) == Len(t.out)

IsVariadic(t) == t.variadic

\* ------------------------------------------------------- raw argument text
\* "%name%": a configuration placeholder.
IsParameter(s) == Len(s) >= 3 /\ s[1] = "%" /\ s[Len(s)] = "%"

\* "@id" or "@id::Member": a type reference.
IsTypeReference(s) == Len(s) >= 2 /\ s[1] = "@"

IsParameterOrTypeReference(s) == IsParameter(s) \/ IsTypeReference(s)

\* --------------------------------------------------------------- factories
\* A TypeFactory value.  tag "type" is a *typeFactory, tag "invalid" the
\* invalid type carrying its construction error, tag "alias" an alias type
\* (typeID holds its target text), and tag "panic" stands for a constructor
\* call that did not return.
newInvalidType(err) ==
    [tag |-> "invalid", factory |-> NilCallable, factoryArguments |-> <<>>,
     err |-> err, typeID |-> <<>>]

typeFactory(function, arguments) ==
    [tag |-> "type", factory |-> function, factoryArguments |-> arguments,
     err |-> NoErr, typeID |-> <<>>]

Panicked ==
    [tag |-> "panic", factory |-> NilCallable, factoryArguments |-> <<>>,
     err |-> NoErr, typeID |-> <<>>]

NewAliasType(typeID) ==
    [tag |-> "alias", factory |-> NilCallable, factoryArguments |-> <<>>,
     err |-> NoErr, typeID |-> typeID]

\* No factory: an unregistered TypeID, or a factory not built yet.
NoFactory ==
    [tag |-> "absent", factory |-> NilCallable, factoryArguments |-> <<>>,
     err |-> NoErr, typeID |-> <<>>]

IsValid(t) == t.tag # "invalid"

\* The type the argument at (1-based) position i is checked against.
expectedArgumentType(t, i) ==
    IF IsVariadic(t) /\ i - 1 >= NumIn(t) - 1
    THEN Elem(t.in[NumIn(t)])
    ELSE t.in[i]

\* A plain string literal where another kind is expected is the only value
\* rejected at construction.
argumentRejected(t, allParameters, i) ==
    /\ allParameters[i].kind # expectedArgumentType(t, i).kind
    /\ allParameters[i].kind = "string"
    /\ ~IsParameterOrTypeReference(allParameters[i].val)

\* Variant: every kind mismatch of a value that is no placeholder or
\* reference is rejected, not only that of a string.
buildFactoryCallArguments_AnyKind(t, allParameters) ==
    LET bad == {i \in 1..Len(allParameters) :
                  /\ allParameters[i].kind # expectedArgumentType(t, i).kind
                  /\ ~(allParameters[i].kind = "string"
                        /\ IsParameterOrTypeReference(allParameters[i].val))}
    IN IF bad = {}
       THEN [args |-> allParameters, err |-> NoErr]
       ELSE LET i == CHOOSE j \in bad : \A k \in bad : j <= k
            IN [args |-> <<>>,
                err |-> Err("ArgumentKind", i, 0, allParameters[i].kind,
                            expectedArgumentType(t, i).kind, <<>>)]

buildFactoryCallArguments(t, allParameters) ==
    LET bad == {i \in 1..Len(allParameters) : argumentRejected(t, allParameters, i)}
    IN IF bad = {}
       THEN [args |-> allParameters, err |-> NoErr]
       ELSE LET i == CHOOSE j \in bad : \A k \in bad : j <= k
            IN [args |-> <<>>,
                err |-> Err("ArgumentKind", i, 0, allParameters[i].kind,
                            expectedArgumentType(t, i).kind, <<>>)]

\* Variant: a non-variadic function only rejects too many arguments.
newTypeFromFactoryFunction_TooManyOnly(function, parameters) ==
    IF NumOut(function) # 1
    THEN newInvalidType(Err("NumOut", NumOut(function), 0, "", "", <<>>))
    ELSE IF function.out[1].kind # "interface" /\ function.out[1].kind # "ptr"
    THEN newInvalidType(Err("ReturnKind", 0, 0, function.out[1].kind, "", <<>>))
    ELSE IF IsVariadic(function) /\ NumIn(function) > Len(parameters)
    THEN newInvalidType(Err("NumInVariadic", Len(parameters), NumIn(function), "", "", <<>>))
    ELSE IF ~IsVariadic(function) /\ NumIn(function) < Len(parameters)
    THEN newInvalidType(Err("NumIn", Len(parameters), NumIn(function), "", "", <<>>))
    ELSE LET built == buildFactoryCallArguments(function, parameters)
         IN IF built.err # NoErr
            THEN newInvalidType(built.err)
            ELSE typeFactory(function, built.args)

newTypeFromFactoryFunction(function, parameters) ==
    IF NumOut(function) # 1
    THEN newInvalidType(Err("NumOut", NumOut(function), 0, "", "", <<>>))
    ELSE IF function.out[1].kind # "interface" /\ function.out[1].kind # "ptr"
    THEN newInvalidType(Err("ReturnKind", 0, 0, function.out[1].kind, "", <<>>))
    ELSE IF IsVariadic(function) /\ NumIn(function) > Len(parameters)
    THEN newInvalidType(Err("NumInVariadic", Len(parameters), NumIn(function), "", "", <<>>))
    ELSE IF ~IsVariadic(function) /\ NumIn(function) # Len(parameters)
    THEN newInvalidType(Err("NumIn", Len(parameters), NumIn(function), "", "", <<>>))
    ELSE LET built == buildFactoryCallArguments(function, parameters)
         IN IF built.err # NoErr
            THEN newInvalidType(built.err)
            ELSE typeFactory(function, built.args)

\* reflect.TypeOf(nil) is the nil Type, and Kind() on it does not return.
NewType(factoryFunction, factoryParameters) ==
    IF factoryFunction.kind = "nil"
    THEN Panicked
    ELSE IF factoryFunction.kind = "func"
    THEN newTypeFromFactoryFunction(factoryFunction, factoryParameters)
    ELSE newInvalidType(Err("NotAFunction", 0, 0, factoryFunction.kind, "", <<>>))

\* NewStructType is sugar over NewType: the synthesized constructor takes
\* the struct's fields positionally and returns a pointer to the struct.
NewStructType(fieldTypes, parameters) ==
    NewType(Callable("func", fieldTypes, <<Type("ptr")>>, FALSE), parameters)

\* ---------------------------------------------------------------- resolver
\* A ParameterResolver is bound to a container: config maps parameter names
\* to values, types maps the TypeIDs the container can retrieve to the
\* instances it yields.
ParameterResolver(config, types) == [config |-> config, types |-> types]

Resolved(value) == [value |-> value, err |-> NoErr]

Failed(value, err) == [value |-> value, err |-> err]

AssignableTo(value, expectedType) ==
    expectedType.kind = "interface" \/ value.kind = expectedType.kind

resolveTypeReference(text, expectedType, resolver) ==
    LET id == Tail(text)
    IN IF id \notin DOMAIN resolver.types
       THEN Failed(NilValue, Err("TypeReference", 0, 0, "invalid", "", id))
       ELSE IF ~AssignableTo(resolver.types[id], expectedType)
       THEN Failed(resolver.types[id],
                   Err("TypeReference", 0, 0, resolver.types[id].kind, "", id))
       ELSE Resolved(resolver.types[id])

resolveLiteral(value, expectedType) ==
    IF AssignableTo(value, expectedType)
    THEN Resolved(value)
    ELSE Failed(NilValue, Err("ShapeMismatch", 0, 0, value.kind, expectedType.kind, <<>>))

resolveParameter(text, expectedType, resolver) ==
    LET name == SubSeq(text, 2, Len(text) - 1)
    IN IF name \notin DOMAIN resolver.config
       THEN Failed(NilValue, Err("ParameterNotFound", 0, 0, "", "", name))
       ELSE resolveLiteral(resolver.config[name], expectedType)

Resolve(argument, expectedType, resolver) ==
    IF argument.kind = "string" /\ IsTypeReference(argument.val)
    THEN resolveTypeReference(argument.val, expectedType, resolver)
    ELSE IF argument.kind = "string" /\ IsParameter(argument.val)
    THEN resolveParameter(argument.val, expectedType, resolver)
    ELSE resolveLiteral(argument, expectedType)

\* ---------------------------------------------------------------- Generate
\* i is the 0-based index the caller passes; the message prints i+1.
invalidReferencedTypeErr(t, typeID, instanceKind, i) ==
    Err("InvalidReferencedType", i + 1, NumIn(t.factory), instanceKind, "", typeID)

\* The error handling shared by the argument loops: a TypeReferenceError is
\* rewritten with the loop's index, any other error is passed on.
argumentError(t, res, i) ==
    IF res.err.type = "TypeReference"
    THEN invalidReferencedTypeErr(t, res.err.id, res.err.k1, i)
    ELSE res.err

FirstFailed(results) ==
    LET bad == {i \in DOMAIN results : results[i].err # NoErr}
    IN IF bad = {} THEN 0 ELSE CHOOSE j \in bad : \A k \in bad : j <= k

\* Variant: the variadic slice is filled from its end.
generateVariadicFactoryArguments_Reversed(t, parameterResolver) ==
    LET actualNumberOfArgs == NumIn(t.factory)
        fixed == [i \in 1..(actualNumberOfArgs - 1) |->
                    Resolve(t.factoryArguments[i], t.factory.in[i], parameterResolver)]
        n == Len(t.factoryArguments) - actualNumberOfArgs + 1
        expectedType == Elem(t.factory.in[actualNumberOfArgs])
        tail == [i \in 1..n |->
                    Resolve(t.factoryArguments[actualNumberOfArgs - 1 + i],
                            expectedType, parameterResolver)]
        f == FirstFailed(fixed)
        v == FirstFailed(tail)
    IN IF f # 0 THEN [args |-> <<>>, err |-> argumentError(t, fixed[f], f - 1)]
       ELSE IF v # 0 THEN [args |-> <<>>, err |-> argumentError(t, tail[v], v - 1)]
       ELSE [args |-> [i \in 1..actualNumberOfArgs |->
                         IF i < actualNumberOfArgs
                         THEN fixed[i].value
                         ELSE SliceValue([j \in 1..n |-> tail[n + 1 - j].value])],
             err |-> NoErr]

generateVariadicFactoryArguments(t, parameterResolver) ==
    LET actualNumberOfArgs == NumIn(t.factory)
        fixed == [i \in 1..(actualNumberOfArgs - 1) |->
                    Resolve(t.factoryArguments[i], t.factory.in[i], parameterResolver)]
        n == Len(t.factoryArguments) - actualNumberOfArgs + 1
        expectedType == Elem(t.factory.in[actualNumberOfArgs])
        tail == [i \in 1..n |->
                    Resolve(t.factoryArguments[actualNumberOfArgs - 1 + i],
                            expectedType, parameterResolver)]
        f == FirstFailed(fixed)
        v == FirstFailed(tail)
    IN IF f # 0 THEN [args |-> <<>>, err |-> argumentError(t, fixed[f], f - 1)]
       ELSE IF v # 0 THEN [args |-> <<>>, err |-> argumentError(t, tail[v], v - 1)]
       ELSE [args |-> [i \in 1..actualNumberOfArgs |->
                         IF i < actualNumberOfArgs
                         THEN fixed[i].value
                         ELSE SliceValue([j \in 1..n |-> tail[j].value])],
             err |-> NoErr]

generateFactoryArguments(t, parameterResolver) ==
    IF IsVariadic(t.factory)
    THEN generateVariadicFactoryArguments(t, parameterResolver)
    ELSE LET res == [i \in 1..Len(t.factoryArguments) |->
                        Resolve(t.factoryArguments[i], t.factory.in[i], parameterResolver)]
             f == FirstFailed(res)
         IN IF f # 0
            THEN [args |-> <<>>, err |-> argumentError(t, res[f], f - 1)]
            ELSE [args |-> [i \in 1..Len(res) |-> res[i].value], err |-> NoErr]

\* What the wrapped constructor returns: an instance of its return kind
\* whose state is the text of its first string argument.
Construct(function, args) ==
    Value(function.out[1].kind,
          IF Len(args) > 0 /\ args[1].kind = "string" THEN args[1].val ELSE <<>>)

\* calls lists the invocations of the wrapped callable made by this Generate.
GenerateResult(value, err, calls) == [value |-> value, err |-> err, calls |-> calls]

typeFactoryGenerate(t, parameterResolver) ==
    LET built == generateFactoryArguments(t, parameterResolver)
    IN IF built.err # NoErr
       THEN GenerateResult(NilValue, built.err, <<>>)
       ELSE GenerateResult(Construct(t.factory, built.args), NoErr,
                           <<[function |-> t.factory, args |-> built.args]>>)

invalidTypeGenerate(t) == GenerateResult(NilValue, t.err, <<>>)

\* --------------------------------------------------------------- Arguments
ArgumentsResult(tag, args) == [tag |-> tag, args |-> args]

NotCalled == ArgumentsResult("none", <<>>)

\* reflect.Value.Interface gives back the value ValueOf was given, and does
\* not return for the zero Value, which is what ValueOf(nil) is.
InterfacePanics(v) == v.kind = "invalid"

Interface(v) == Value(v.kind, v.val)

typeFactoryArguments(t) ==
    IF \E i \in DOMAIN t.factoryArguments : InterfacePanics(t.factoryArguments[i])
    THEN ArgumentsResult("panic", <<>>)
    ELSE ArgumentsResult("ok", [i \in 1..Len(t.factoryArguments) |->
                                  Interface(t.factoryArguments[i])])

\* An alias has one argument, "@" followed by its target.
aliasTypeArguments(t) == ArgumentsResult("ok", <<Value("string", <<"@">> \o t.typeID)>>)

Arguments(t) ==
    IF t.tag = "alias" THEN aliasTypeArguments(t)
    ELSE IF t.tag = "type" THEN typeFactoryArguments(t)
    ELSE ArgumentsResult("ok", <<>>)

Generate(t, parameterResolver) ==
    IF t.tag = "invalid"
    THEN invalidTypeGenerate(t)
    ELSE typeFactoryGenerate(t, parameterResolver)

\* ------------------------------------------------------------- input sets
ParamTypes == {Type(k) : k \in ParamKinds}

ReturnShapes ==
    {<<>>, <<Type("ptr")>>, <<Type("interface")>>, <<Type("string")>>,
     <<Type("ptr"), Type("ptr")>>}

FixedFuncs ==
    {Callable("func", in, out, FALSE) : in \in SeqsUpTo(ParamTypes, MaxIn), out \in ReturnShapes}

VariadicFuncs ==
    {Callable("func", Append(in, SliceOf(e)), out, TRUE) :
        in \in SeqsUpTo(ParamTypes, MaxIn - 1), e \in ParamKinds, out \in ReturnShapes}

NonFuncs == {Callable("int", <<>>, <<>>, FALSE), Callable("struct", <<>>, <<>>, FALSE)}

Callables == FixedFuncs \cup VariadicFuncs \cup NonFuncs \cup {NilCallable}

\* The raw arguments tried: a string and an int literal, a configured and a
\* missing placeholder, a known and an unknown reference, and nil.
RawArguments ==
    {Value("string", <<"x">>), Value("int", <<"4", "2">>),
     Value("string", <<"%", "b", "%">>), Value("string", <<"%", "m", "%">>),
     Value("string", <<"@", "f">>), Value("string", <<"@", "n">>),
     NilValue}

ArgumentLists == SeqsUpTo(RawArguments, MaxArgs)

\* The resolver the factory under test is generated with: parameter "b" is
\* configured, type "f" is registered and yields a pointer instance.
TestResolver ==
    ParameterResolver(<<"b">> :> Value("string", <<"v">>),
                      <<"f">> :> Value("ptr", <<"f">>))

\* ----------------------------------------------------------------- state
\* One factory under construction and generation.
VARIABLES factoryFunction, factoryParameters, pc, factory, generated, arguments

typeVars == <<factoryFunction, factoryParameters, pc, factory, generated, arguments>>

\* A container: its registry, the validation runs made over it, the
\* instance cache with its per-TypeID guards, and the callers of Get.
VARIABLES phase, registry, validated, cache, lock, callers, constructed, returned,
          nextSerial

containerVars ==
    <<phase, registry, validated, cache, lock, callers, constructed, returned,
      nextSerial>>

\* One run of the generator's input sanitizer.
VARIABLES input, sanitized, sanitizerPc

sanitizeVars == <<input, sanitized, sanitizerPc>>

vars == <<typeVars, containerVars, sanitizeVars>>

\* --------------------------------------- one factory, built and generated
TypeInit ==
    /\ factoryFunction \in Callables
    /\ factoryParameters \in ArgumentLists
    /\ pc = "start"
    /\ factory = NoFactory
    /\ generated = <<>>
    /\ arguments = NotCalled

CallNewType ==
    /\ pc = "start"
    /\ factory' = NewType(factoryFunction, factoryParameters)
    /\ pc' = IF factory'.tag = "panic" THEN "panicked" ELSE "constructed"
    /\ UNCHANGED <<factoryFunction, factoryParameters, generated, arguments>>
    /\ UNCHANGED <<containerVars, sanitizeVars>>

CallGenerate ==
    /\ pc = "constructed"
    /\ Len(generated) < MaxGenerate
    /\ generated' = Append(generated, Generate(factory, TestResolver))
    /\ UNCHANGED <<factoryFunction, factoryParameters, pc, factory, arguments>>
    /\ UNCHANGED <<containerVars, sanitizeVars>>

\* A call of Arguments() on the factory; it builds a new slice and leaves
\* the factory alone.
CallArguments ==
    /\ pc = "constructed"
    /\ arguments = NotCalled
    /\ arguments' = Arguments(factory)
    /\ pc' = IF arguments'.tag = "panic" THEN "panicked" ELSE pc
    /\ UNCHANGED <<factoryFunction, factoryParameters, factory, generated>>
    /\ UNCHANGED <<containerVars, sanitizeVars>>

TypeNext == CallNewType \/ CallGenerate \/ CallArguments

\* ===================================================== function factories
Constructed == pc = "constructed"

\* The callable's return shape is one NewType accepts.
GoodReturn(f) == NumOut(f) = 1 /\ f.out[1].kind \in {"ptr", "interface"}

\* Number of parameters before the variadic one.
FixedArity(f) == NumIn(f) - 1

ArityErrors == {"NumIn", "NumInVariadic"}

\* C2: NewType returns an invalid factory (and does return) for nil, for a
\* value that is no function and for a function whose return shape is not
\* exactly one pointer or interface; every Generate on that factory then
\* fails with the recorded construction error and invokes nothing.
C2_InvalidCallableYieldsInvalidFactory ==
    (pc # "start" /\ (factoryFunction.kind # "func" \/ ~GoodReturn(factoryFunction)))
        => /\ factory.tag = "invalid"
           /\ \A i \in DOMAIN generated :
                generated[i].err = factory.err /\ generated[i].calls = <<>>

\* C3: a non-variadic callable of arity N with k raw arguments gives an
\* invalid factory whenever k # N, and the arity check does not reject k = N.
C3_FixedArityChecked ==
    (Constructed /\ factoryFunction.kind = "func" /\ ~IsVariadic(factoryFunction))
        => /\ Len(factoryParameters) # NumIn(factoryFunction) => factory.tag = "invalid"
           /\ Len(factoryParameters) = NumIn(factoryFunction)
                => factory.err.type \notin ArityErrors

C3_Witness ==
    /\ Constructed
    /\ factoryFunction.kind = "func" /\ ~IsVariadic(factoryFunction)
    /\ GoodReturn(factoryFunction)
    /\ Len(factoryParameters) > NumIn(factoryFunction)
    /\ NumIn(factoryFunction) > 0
    /\ factory.err.type = "NumIn"

\* C4: a variadic callable with F fixed parameters is rejected for its
\* argument count exactly when k < F; k = F (empty variadic tail) passes.
C4_VariadicAcceptsFromFixedArity ==
    (Constructed /\ factoryFunction.kind = "func" /\ IsVariadic(factoryFunction)
       /\ GoodReturn(factoryFunction))
        => (factory.err.type \in ArityErrors
              <=> Len(factoryParameters) < FixedArity(factoryFunction))

\* C5: a successful Generate of a variadic factory with F fixed parameters
\* and k raw arguments calls the callable once, with F+1 arguments: raw
\* arguments 1..F resolved in order against their parameter types, then one
\* slice of length k-F holding raw arguments F+1..k resolved in order
\* against the variadic element type.
VariadicCallAsDeclared(g) ==
    LET F == FixedArity(factoryFunction)
        k == Len(factoryParameters)
        elemType == Elem(factoryFunction.in[F + 1])
    IN /\ Len(g.calls) = 1
       /\ Len(g.calls[1].args) = F + 1
       /\ \A i \in 1..F :
            g.calls[1].args[i]
                = Resolve(factoryParameters[i], factoryFunction.in[i], TestResolver).value
       /\ g.calls[1].args[F + 1].kind = "slice"
       /\ Len(g.calls[1].args[F + 1].elems) = k - F
       /\ \A j \in 1..(k - F) :
            g.calls[1].args[F + 1].elems[j]
                = Resolve(factoryParameters[F + j], elemType, TestResolver).value

C5_VariadicPacking ==
    (Constructed /\ factory.tag = "type" /\ IsVariadic(factoryFunction))
        => \A n \in DOMAIN generated :
              generated[n].err = NoErr => VariadicCallAsDeclared(generated[n])

C5_Witness ==
    /\ Constructed /\ factory.tag = "type" /\ IsVariadic(factoryFunction)
    /\ FixedArity(factoryFunction) = 1
    /\ Len(factoryParameters) = 3
    /\ Len(generated) >= 1
    /\ generated[1].err = NoErr
    /\ generated[1].calls[1].args[2].elems[1] # generated[1].calls[1].args[2].elems[2]

\* The declared type a raw argument at position p (1-based, over all raw
\* arguments) is meant for: its own parameter, or the variadic element.
ParameterTypeAt(f, p) ==
    IF IsVariadic(f) /\ p > FixedArity(f)
    THEN Type(f.in[NumIn(f)].elem)
    ELSE f.in[p]

PlainStringLiteral(a) ==
    a.kind = "string" /\ ~IsParameter(a.val) /\ ~IsTypeReference(a.val)

CountOrShapeErrors == ArityErrors \cup {"NotAFunction", "NumOut", "ReturnKind"}

\* Position of the first raw argument that does not resolve, 0 if all do.
FirstUnresolved ==
    LET bad == {p \in 1..Len(factoryParameters) :
                  Resolve(factoryParameters[p], ParameterTypeAt(factoryFunction, p),
                          TestResolver).err # NoErr}
    IN IF bad = {} THEN 0 ELSE CHOOSE p \in bad : \A q \in bad : p <= q

EagerlyRejected(p) ==
    /\ PlainStringLiteral(factoryParameters[p])
    /\ ParameterTypeAt(factoryFunction, p).kind # "string"

C10_ReferenceErrorNamesPosition ==
    (Constructed /\ factory.tag = "type" /\ FirstUnresolved # 0)
        => LET p == FirstUnresolved
               r == Resolve(factoryParameters[p], ParameterTypeAt(factoryFunction, p),
                            TestResolver)
           IN r.err.type = "TypeReference"
                => \A n \in DOMAIN generated :
                      /\ generated[n].calls = <<>>
                      /\ generated[n].err.type = "InvalidReferencedType"
                      /\ generated[n].err.id = r.err.id
                      /\ generated[n].err.n1 = p

\* ------------------------------------------------------ container fixtures
Foo == <<"f", "o", "o">>

Bar == <<"b", "a", "r">>

TypeIDs == {Foo, Bar}

ReturnString == <<"R", "e", "t", "u", "r", "n", "S", "t", "r", "i", "n", "g">>

FooReturnString == Foo \o <<":", ":">> \o ReturnString

\* "I was created by @foo"
CreatedByFoo ==
    <<"I", " ", "w", "a", "s", " ", "c", "r", "e", "a", "t", "e", "d", " ",
      "b", "y", " ", "@", "f", "o", "o">>

TEST == <<"T", "E", "S", "T">>

\* tests.MockType as the alias tests build it: one string field.
MockTypeFields == <<Type("string")>>

\* The factories a program registers here: a valid struct type, two
\* malformed ones with different construction errors, and three aliases.
Catalogue ==
    {NewStructType(MockTypeFields, <<Value("string", CreatedByFoo)>>),
     NewStructType(MockTypeFields, <<>>),
     NewType(Callable("func", <<>>, <<Type("string")>>, FALSE), <<>>),
     NewAliasType(Foo), NewAliasType(FooReturnString), NewAliasType(Bar)}

\* ------------------------------------------------------- validation
NilResult == [type |-> "nil", typeID |-> <<>>, cause |-> NoErr]

\* fmt.Errorf("type %q is invalid: %s", typeID, typeFactory.(error))
InvalidTypeError(typeID, cause) ==
    [type |-> "TypeIsInvalid", typeID |-> typeID, cause |-> cause]

Registered(reg) == {id \in DOMAIN reg : reg[id].tag # "absent"}

\* The orders in which a range over the registry map can visit its keys.
IterationOrders(reg) ==
    {o \in [1..Cardinality(Registered(reg)) -> Registered(reg)] :
        \A i, j \in DOMAIN o : i # j => o[i] # o[j]}

\* Variant: the loop returns after the first factory it visits.
Validate_FirstVisitedOnly(reg, order) ==
    IF order # <<>> /\ IsValid(reg[order[1]]) = FALSE
    THEN InvalidTypeError(order[1], reg[order[1]].err)
    ELSE NilResult

\* Validate for one iteration order of the map: the first invalid factory
\* visited ends the loop with an error naming it.
Validate(reg, order) ==
    LET bad == {i \in DOMAIN order : IsValid(reg[order[i]]) = FALSE}
    IN IF bad = {}
       THEN NilResult
       ELSE LET i == CHOOSE j \in bad : \A k \in bad : j <= k
            IN InvalidTypeError(order[i], reg[order[i]].err)

\* ------------------------------------------------------- container
MaxCallers == 3

MaxValidate == 2

MaxSerial == 6

Callers == 1..MaxCallers

\* An instance held by the container: a value and the serial number of the
\* constructor invocation that made it (its identity); 0 for values that
\* are not allocations.
Obj(value, serial) ==
    [kind |-> value.kind, val |-> value.val, elems |-> value.elems, serial |-> serial]

NoObj == Obj(NilValue, 0)

GetResult(value, err) == [value |-> value, err |-> err]

NoResult == GetResult(NoObj, NoErr)

Idle == [pc |-> "idle", chain |-> <<>>, ret |-> NoResult, request |-> <<>>]

Last(chain) == chain[Len(chain)]

Front(chain) == SubSeq(chain, 1, Len(chain) - 1)

\* "id::Member" splits at the first "::"; 0 when there is none.
MemberSeparator(text) ==
    LET at == {i \in 1..(Len(text) - 1) : text[i] = ":" /\ text[i + 1] = ":"}
    IN IF at = {} THEN 0 ELSE CHOOSE i \in at : \A j \in at : i <= j

TargetID(text) ==
    IF MemberSeparator(text) = 0 THEN text ELSE SubSeq(text, 1, MemberSeparator(text) - 1)

TargetMember(text) ==
    IF MemberSeparator(text) = 0
    THEN <<>>
    ELSE SubSeq(text, MemberSeparator(text) + 2, Len(text))

\* The exposed callable members of a MockType instance.
Members == {ReturnString}

\* MockType.ReturnString(suffix): the state, a space, the suffix.
CallMember(instance, member, argument) == instance.val \o <<" ">> \o argument

\* A callable bound to (closing over) an instance.
BoundCallable(instance, member) ==
    [kind |-> "func", val |-> member, elems |-> <<instance>>, serial |-> 0]

CallBound(callable, argument) == CallMember(callable.elems[1], callable.val, argument)

\* Variant: the member suffix is ignored and the instance itself returned.
aliasTypeGenerate_IgnoresMember(t, got) == got

\* Generate of an alias type, given what the container's Get returned for
\* the target TypeID.
aliasTypeGenerate(t, got) ==
    IF got.err # NoErr
    THEN got
    ELSE IF TargetMember(t.typeID) = <<>>
    THEN got
    ELSE IF got.value.kind = "ptr" /\ TargetMember(t.typeID) \in Members
    THEN GetResult(BoundCallable(got.value, TargetMember(t.typeID)), NoErr)
    ELSE GetResult(NoObj, Err("NoSuchMember", 0, 0, got.value.kind, "", t.typeID))

\* The resolver bound to this container: no configuration, and the
\* instances cached so far.
ContainerResolver ==
    ParameterResolver(<<>>, [id \in {i \in TypeIDs : cache[i] # NoObj} |->
                                [kind |-> cache[id].kind, val |-> cache[id].val,
                                 elems |-> cache[id].elems]])

ContainerInit ==
    /\ phase = "register"
    /\ registry = [id \in TypeIDs |-> NoFactory]
    /\ validated = <<>>
    /\ cache = [id \in TypeIDs |-> NoObj]
    /\ lock = [id \in TypeIDs |-> 0]
    /\ callers = [c \in Callers |-> Idle]
    /\ constructed = [id \in TypeIDs |-> 0]
    /\ returned = [id \in TypeIDs |-> {}]
    /\ nextSerial = 1

\* TypeRegistry.Register: overwrite on re-registration.
Register(id, t) ==
    /\ phase = "register"
    /\ registry' = [registry EXCEPT ![id] = t]
    /\ UNCHANGED <<phase, validated, cache, lock, callers, constructed, returned,
                   nextSerial>>
    /\ UNCHANGED <<typeVars, sanitizeVars>>

\* One run of the constraint, after registration and before retrieval.
RunValidate ==
    /\ phase \in {"register", "validate"}
    /\ Len(validated) < MaxValidate
    /\ \E order \in IterationOrders(registry) :
          validated' = Append(validated, Validate(registry, order))
    /\ phase' = "validate"
    /\ UNCHANGED <<registry, cache, lock, callers, constructed, returned, nextSerial>>
    /\ UNCHANGED <<typeVars, sanitizeVars>>

\* A caller enters Container.Get(id); retrieval starts only after a
\* validation run that passed.
GetCall(c, id) ==
    /\ phase \in {"validate", "retrieve"}
    /\ validated # <<>>
    /\ validated[Len(validated)] = NilResult
    /\ callers[c].pc = "idle"
    /\ phase' = "retrieve"
    /\ callers' = [callers EXCEPT ![c] =
                     [pc |-> "enter", chain |-> <<id>>, ret |-> NoResult, request |-> id]]
    /\ UNCHANGED <<registry, validated, cache, lock, constructed, returned, nextSerial>>
    /\ UNCHANGED <<typeVars, sanitizeVars>>

\* Finish the innermost Get of caller c with result r.
Leave(c, r) ==
    callers' = [callers EXCEPT ![c].pc = "return",
                               ![c].chain = Front(@),
                               ![c].ret = r]

\* Variant: the guarded section is entered without waiting for it.
Enter_Unguarded(c) ==
    LET id == Last(callers[c].chain)
    IN /\ callers[c].pc = "enter"
       /\ IF registry[id].tag = "absent"
          THEN /\ Leave(c, GetResult(NoObj, Err("UnknownType", 0, 0, "", "", id)))
               /\ UNCHANGED lock
          ELSE IF id \in Range(Front(callers[c].chain))
          THEN /\ Leave(c, GetResult(NoObj, Err("Cycle", 0, 0, "", "", id)))
               /\ UNCHANGED lock
          ELSE /\ lock' = [lock EXCEPT ![id] = c]
               /\ callers' = [callers EXCEPT ![c].pc = "critical"]
       /\ UNCHANGED <<phase, registry, validated, cache, constructed, returned,
                      nextSerial>>
       /\ UNCHANGED <<typeVars, sanitizeVars>>

\* Entry of Get for the innermost TypeID of the chain: unknown type, cycle,
\* or entering the TypeID's guarded section.
Enter(c) ==
    LET id == Last(callers[c].chain)
    IN /\ callers[c].pc = "enter"
       /\ IF registry[id].tag = "absent"
          THEN /\ Leave(c, GetResult(NoObj, Err("UnknownType", 0, 0, "", "", id)))
               /\ UNCHANGED lock
          ELSE IF id \in Range(Front(callers[c].chain))
          THEN /\ Leave(c, GetResult(NoObj, Err("Cycle", 0, 0, "", "", id)))
               /\ UNCHANGED lock
          ELSE /\ lock[id] = 0
               /\ lock' = [lock EXCEPT ![id] = c]
               /\ callers' = [callers EXCEPT ![c].pc = "critical"]
       /\ UNCHANGED <<phase, registry, validated, cache, constructed, returned,
                      nextSerial>>
       /\ UNCHANGED <<typeVars, sanitizeVars>>

\* Inside the guarded section: return the cached instance if there is
\* one, else go on to generate.
Critical(c) ==
    LET id == Last(callers[c].chain)
    IN /\ callers[c].pc = "critical"
       /\ IF cache[id] # NoObj
          THEN /\ Leave(c, GetResult(cache[id], NoErr))
               /\ lock' = [lock EXCEPT ![id] = 0]
          ELSE /\ callers' = [callers EXCEPT ![c].pc = "generate"]
               /\ UNCHANGED lock
       /\ UNCHANGED <<phase, registry, validated, cache, constructed, returned,
                      nextSerial>>
       /\ UNCHANGED <<typeVars, sanitizeVars>>

\* The factory's Generate, still inside the guarded section: an alias asks
\* the container for its target; any other factory is generated, and a new
\* instance is cached before the section is left.
GenerateInstance(c) ==
    LET id == Last(callers[c].chain)
        t == registry[id]
        g == Generate(t, ContainerResolver)
    IN /\ callers[c].pc = "generate"
       /\ IF t.tag = "alias"
          THEN /\ callers' = [callers EXCEPT ![c].pc = "enter",
                                             ![c].chain = Append(@, TargetID(t.typeID))]
               /\ UNCHANGED <<lock, cache, constructed, nextSerial>>
          ELSE IF g.err # NoErr
          THEN /\ Leave(c, GetResult(NoObj, g.err))
               /\ lock' = [lock EXCEPT ![id] = 0]
               /\ UNCHANGED <<cache, constructed, nextSerial>>
          ELSE /\ nextSerial <= MaxSerial
               /\ cache' = [cache EXCEPT ![id] = Obj(g.value, nextSerial)]
               /\ constructed' = [constructed EXCEPT ![id] = @ + Len(g.calls)]
               /\ nextSerial' = nextSerial + 1
               /\ Leave(c, GetResult(Obj(g.value, nextSerial), NoErr))
               /\ lock' = [lock EXCEPT ![id] = 0]
       /\ UNCHANGED <<phase, registry, validated, returned>>
       /\ UNCHANGED <<typeVars, sanitizeVars>>

\* A Get has finished: hand its result to the caller, or to the alias that
\* asked for it, which caches what it generates and leaves its own section.
Return(c) ==
    /\ callers[c].pc = "return"
    /\ IF callers[c].chain = <<>>
       THEN /\ returned' = [returned EXCEPT ![callers[c].request] = @ \cup {callers[c].ret}]
            /\ callers' = [callers EXCEPT ![c] = Idle]
            /\ UNCHANGED <<cache, lock>>
       ELSE LET id == Last(callers[c].chain)
                r == aliasTypeGenerate(registry[id], callers[c].ret)
            IN /\ cache' = IF r.err = NoErr THEN [cache EXCEPT ![id] = r.value] ELSE cache
               /\ lock' = [lock EXCEPT ![id] = 0]
               /\ Leave(c, r)
               /\ UNCHANGED returned
    /\ UNCHANGED <<phase, registry, validated, constructed, nextSerial>>
    /\ UNCHANGED <<typeVars, sanitizeVars>>

ContainerNext ==
    \/ \E id \in TypeIDs, t \in Catalogue : Register(id, t)
    \/ RunValidate
    \/ \E c \in Callers, id \in TypeIDs : GetCall(c, id)
    \/ \E c \in Callers : Enter(c)
    \/ \E c \in Callers : Critical(c)
    \/ \E c \in Callers : GenerateInstance(c)
    \/ \E c \in Callers : Return(c)

\* ------------------------------------------------------- sanitizer
MaxInput == 5

\* The bytes tried: newline, tab, space, carriage return and a letter.
Bytes == {"\n", "\t", " ", "\r", "a"}

\* The bytes strings.TrimSpace strips, among those tried.
TrimmedBytes == {"\n", "\t", " ", "\r"}

\* strings.TrimSpace(line) == ""
TrimSpaceIsEmpty(line) == \A i \in DOMAIN line : line[i] \in TrimmedBytes

FourSpaces == <<" ", " ", " ", " ">>

\* The loop of sanitizeInput from byte i on: out is sanitizedInput, line the
\* line buffer; at the end the line buffer is written out as it is.
RECURSIVE sanitizeLoop(_, _, _, _, _)
sanitizeLoop(bytes, i, out, line, lineBeginning) ==
    IF i > Len(bytes)
    THEN out \o line
    ELSE IF bytes[i] = "\n"
    THEN IF ~TrimSpaceIsEmpty(line)
         THEN sanitizeLoop(bytes, i + 1, out \o line \o <<"\n">>, <<>>, TRUE)
         ELSE sanitizeLoop(bytes, i + 1, out, line, lineBeginning)
    ELSE IF bytes[i] = "\t"
    THEN IF lineBeginning
         THEN sanitizeLoop(bytes, i + 1, out, line \o FourSpaces, lineBeginning)
         ELSE sanitizeLoop(bytes, i + 1, out, Append(line, bytes[i]), lineBeginning)
    ELSE IF bytes[i] = " "
    THEN sanitizeLoop(bytes, i + 1, out, Append(line, bytes[i]), lineBeginning)
    ELSE sanitizeLoop(bytes, i + 1, out, Append(line, bytes[i]), FALSE)

sanitizeInput(bytes) == sanitizeLoop(bytes, 1, <<>>, <<>>, TRUE)

SanitizeInit ==
    /\ input \in SeqsUpTo(Bytes, MaxInput)
    /\ sanitized = <<>>
    /\ sanitizerPc = "start"

SanitizeIdle ==
    /\ input = <<>>
    /\ sanitized = <<>>
    /\ sanitizerPc = "unused"

\* parseInput hands the bytes read to sanitizeInput.
CallSanitizeInput ==
    /\ sanitizerPc = "start"
    /\ sanitized' = sanitizeInput(input)
    /\ sanitizerPc' = "done"
    /\ UNCHANGED input
    /\ UNCHANGED <<typeVars, containerVars>>

SanitizeNext == CallSanitizeInput

\* ------------------------------------------------------- specifications
\* The factory variables when no single factory is under test.
TypeIdle ==
    /\ factoryFunction = NilCallable
    /\ factoryParameters = <<>>
    /\ pc = "unused"
    /\ factory = NoFactory
    /\ generated = <<>>
    /\ arguments = NotCalled

\* A container from registration through validation to concurrent retrieval.
Init == ContainerInit /\ TypeIdle /\ SanitizeIdle

Next == ContainerNext

Spec == Init /\ [][Next]_vars

\* One factory built by NewType and generated against a fixed resolver.
InitType == TypeInit /\ ContainerInit /\ SanitizeIdle

SpecType == InitType /\ [][TypeNext]_vars

\* One input sanitized by the generator.
InitSanitize == SanitizeInit /\ TypeIdle /\ ContainerInit

SpecSanitize == InitSanitize /\ [][SanitizeNext]_vars

\* ============================================================ validation
InvalidIDs == {id \in TypeIDs : registry[id].tag = "invalid"}

\* C1: Validate returns an error exactly when some registered factory is
\* invalid; the error names a registered invalid TypeID together with that
\* factory's construction error; with no invalid factory (the empty
\* registry included) it returns nil.
C1_ValidateReportsInvalidTypes ==
    \A n \in DOMAIN validated :
        /\ validated[n] # NilResult <=> InvalidIDs # {}
        /\ validated[n] # NilResult
             => /\ validated[n].type = "TypeIsInvalid"
                /\ validated[n].typeID \in InvalidIDs
                /\ validated[n].cause = registry[validated[n].typeID].err
                /\ validated[n].cause # NoErr

C1_Witness ==
    /\ validated # <<>>
    /\ validated[1] # NilResult
    /\ InvalidIDs # {}
    /\ \E id \in TypeIDs : registry[id].tag = "type"

\* C8: two runs of Validate over the same registry return the same result,
\* the same error text and TypeID included.
C8_ValidateDeterministic ==
    \A i, j \in DOMAIN validated : validated[i] = validated[j]

\* ============================================================ retrieval
\* "I was created by @foo TEST"
CreatedByFooTEST ==
    <<"I", " ", "w", "a", "s", " ", "c", "r", "e", "a", "t", "e", "d", " ",
      "b", "y", " ", "@", "f", "o", "o", " ", "T", "E", "S", "T">>

Succeeded(results) == {r \in results : r.err = NoErr}

\* C6: what an alias for target t generates is what the container yields
\* for t: for a plain id the very instance Get(t) returns, and it fails
\* only if Get(t) does; for "id::Member" a callable bound to the instance of
\* id, which called with "TEST" on the state "I was created by @foo" gives
\* "I was created by @foo TEST".
C6_AliasYieldsTarget ==
    \A a \in TypeIDs :
        registry[a].tag = "alias"
          => LET t == TargetID(registry[a].typeID)
                 m == TargetMember(registry[a].typeID)
             IN /\ cache[a] # NoObj
                    => /\ t \in TypeIDs /\ cache[t] # NoObj
                       /\ m = <<>> => cache[a] = cache[t]
                       /\ m # <<>>
                            => /\ cache[a].kind = "func"
                               /\ cache[a].elems = <<cache[t]>>
                               /\ cache[t].val = CreatedByFoo
                                    => CallBound(cache[a], TEST) = CreatedByFooTEST
                /\ \A r \in returned[a] :
                      /\ r.err = NoErr => r.value = cache[a]
                      /\ (r.err # NoErr /\ m = <<>> /\ t \in TypeIDs) => cache[t] = NoObj

C6_Witness ==
    /\ registry[Bar] = NewAliasType(FooReturnString)
    /\ registry[Foo].tag = "type"
    /\ cache[Foo] # NoObj
    /\ \E r \in returned[Bar] :
          /\ r.err = NoErr
          /\ r.value.elems = <<cache[Foo]>>
          /\ CallBound(r.value, TEST) = CreatedByFooTEST

\* C7: however concurrent first Get calls for one TypeID interleave, its
\* constructor is invoked at most once, exactly once when an instance
\* exists, and every Get that succeeded, first or later, returned that one
\* instance.
C7_ConstructedOnce ==
    \A id \in TypeIDs :
        /\ constructed[id] <= 1
        /\ (registry[id].tag = "type" /\ cache[id] # NoObj) => constructed[id] = 1
        /\ \A r \in Succeeded(returned[id]) : r.value = cache[id]
        /\ \A c \in Callers :
              (callers[c].pc = "return" /\ callers[c].chain = <<>>
                 /\ callers[c].request = id /\ callers[c].ret.err = NoErr)
                => callers[c].ret.value = cache[id]

C7_Witness ==
    \E c1, c2 \in Callers :
        /\ c1 # c2
        /\ registry[Foo].tag = "type"
        /\ callers[c1].request = Foo /\ callers[c1].pc = "return"
        /\ callers[c1].ret.err = NoErr
        /\ callers[c2].request = Foo /\ callers[c2].pc = "critical"
        /\ constructed[Foo] = 1
        /\ returned[Foo] = {}

\* ============================================================ Arguments()
\* "@foo"
AtFoo == <<"@", "f", "o", "o">>

\* C11: Arguments() of a valid function factory built by NewType(f, a1..ak)
\* returns a1..ak, same length, values and order, placeholders and
\* references still as text; Arguments() of the alias of foo is ["@foo"].
C11_ArgumentsAsDeclared ==
    /\ (factory.tag = "type" /\ arguments # NotCalled)
          => arguments = ArgumentsResult("ok", factoryParameters)
    /\ Arguments(NewAliasType(Foo)) = ArgumentsResult("ok", <<Value("string", AtFoo)>>)

\* ========================================================= sanitizeInput
\* Index of the first newline of bytes, 0 if there is none.
FirstNewline(bytes) ==
    LET at == {i \in DOMAIN bytes : bytes[i] = "\n"}
    IN IF at = {} THEN 0 ELSE CHOOSE i \in at : \A j \in at : i <= j

\* A line with every tab of its leading run of spaces and tabs replaced by
\* four spaces, the rest kept.
RECURSIVE ExpandLeadingTabs(_)
ExpandLeadingTabs(line) ==
    IF line = <<>> THEN <<>>
    ELSE IF line[1] = "\t" THEN FourSpaces \o ExpandLeadingTabs(Tail(line))
    ELSE IF line[1] = " " THEN <<" ">> \o ExpandLeadingTabs(Tail(line))
    ELSE line

\* The non-blank lines of bytes in order, each with its leading tabs
\* expanded and its newline.  A line ends at a newline; what follows the
\* last newline is no line yet and is kept, its leading tabs expanded.
RECURSIVE NonBlankLines(_)
NonBlankLines(bytes) ==
    IF bytes = <<>> THEN <<>>
    ELSE IF FirstNewline(bytes) = 0
    THEN ExpandLeadingTabs(bytes)
    ELSE LET k == FirstNewline(bytes)
             line == SubSeq(bytes, 1, k - 1)
         IN (IF TrimSpaceIsEmpty(line) THEN <<>> ELSE ExpandLeadingTabs(line) \o <<"\n">>)
              \o NonBlankLines(SubSeq(bytes, k + 1, Len(bytes)))

\* C12: sanitizeInput only removes blank lines and expands leading tabs:
\* its output is the input's non-blank lines in order, each with its own
\* indentation and the tabs of that indentation as four spaces; nothing of
\* a removed blank line reaches the line after it.
C12_SanitizeKeepsNonBlankLines ==
    sanitizerPc = "done" => sanitized = NonBlankLines(input)

====
